---- MODULE Spec2Model ----
(***************************************************************************)
(* Model of MAVProxy/modules/mavproxy_teltonika.py: the TeltonikaModule    *)
(* tick (idle_task), its JSON-RPC session with the gateway, the modem      *)
(* resolution, the telemetry poll, the status publisher and the module's   *)
(* text commands.  Time is in whole seconds.                               *)
(***************************************************************************)
EXTENDS Integers, Sequences, FiniteSets, TLC

VARIABLES
    router,                     \* teltonika_settings.router
    sendalllinks,               \* teltonika_settings.sendalllinks
    sendalloutputs,             \* teltonika_settings.sendalloutputs
    started,                    \* self.started
    session,                    \* self.session
    last_status,                \* self.last_status (telemetry snapshot)
    last_update,                \* self.last_update (poll timestamp)
    last_login,                 \* self.last_login
    last_status_message_update, \* self.last_status_message_update
    modem,                      \* self.modem
    request_num,                \* self.request_num
    mav_master,                 \* mpstate.mav_master (configured links)
    mav_outputs,                \* mpstate.mav_outputs (output-only links)
    clock,                      \* time.time()
    advances,                   \* how many times the clock has moved
    now,                        \* idle_task's local "now"
    pc,                         \* position of idle_task
    lastCall,                   \* the most recent _json_rpc call and its answer
    loginAt,                    \* time of the tick of the last login call, -1 if none
    pollAt,                     \* time of the tick of the last successful poll, -1 if none
    exit,                       \* how the last idle_task call ended
    sent,                       \* telemetry messages sent by the current tick
    pub,                        \* the current tick reached the status publisher
    fresh,                      \* started, and no gateway call made since the start
    skipped,                    \* the publisher ended at "Position unknown" and
                                \* the publish timestamp has not been set since
    info,                       \* a modem field map handed to the signal computation
    reported,                   \* the signal strength computed from info
    sms_enabled,                \* teltonika_settings.sms_enabled
    flightmode,                 \* self.master.flightmode
    lastSms,                    \* the most recent request to the /sms endpoint
    reply,                      \* what incoming_sms returned for it ("raise": it raised)
    smsOut,                     \* the SMS it sent through send_sms
    cmds,                       \* the vehicle commands it issued
    moving,                     \* the displacement it printed ("Moving x y")
    during,                     \* where idle_task stood when the request was handled
    joystick,                   \* Joystick.joystick: the bound device, NoJoystick for None
    devices,                    \* the devices pygame lists, by joystick index
    detected                    \* the last detect_disconnected call: how it ended and
                                \* the binding it started from

settings == <<router, sendalllinks, sendalloutputs>>
fields   == <<started, session, last_status, last_update, last_login,
              last_status_message_update, modem, request_num>>
host     == <<mav_master, mav_outputs>>
time     == <<clock, advances>>
tick     == <<now, pc>>
observed == <<lastCall, loginAt, pollAt, exit, sent, pub, skipped, fresh>>
signal   == <<info, reported>>
smsSeen  == <<lastSms, reply, smsOut, cmds, moving, during>>
sms      == <<sms_enabled, flightmode, smsSeen>>
joy      == <<joystick, devices, detected>>
apart    == <<signal, sms, joy>>
vars     == <<settings, fields, host, time, tick, observed, apart>>

----------------------------------------------------------------------------
(* Bounds of the exploration *)

StartTime   == 31       \* time.time() when the module is constructed
MaxAdvances == 2        \* clock movements explored
MaxRequestNum == 3      \* largest request id explored

(* Program constants *)

LoginIntervalLong == StartTime + StartTime

LoginInterval   == 5    \* idle_task: now - self.last_login > 5
PublishInterval == 30   \* idle_task: now - self.last_status_message_update > 30
freq            == 1    \* teltonika_settings.freq default 1.0

None           == "None"
Placeholder    == "00000000000000000000000000000000"
InvalidSession == "-32002"

(* Values the environment can supply *)

Deltas      == {1, LoginInterval, PublishInterval}
Routers     == {"192.168.1.1"}
SessionIds  == {"sidA", "sidB"}
ResultCodes == {0, 6}
FaultCodes  == {InvalidSession, "-32000"}
NoField     == "NoField"
NetworkConfigs == {<<>>, <<NoField>>, <<NoField, "modemB">>, <<"modemA", "modemB">>}
Mobiles     == {"mobile1", "mobile2"}
Positions   == {None, "position"}
ConfiguredLinks == <<"master", "link2">>   \* what the host put in mav_master
OutputLinks == <<"out1">>                  \* what the host put in mav_outputs
RichLinks   == {"link2"}                   \* links whose mav has cellular_status_send

Faults == [kind : {"error"}, code : FaultCodes]

\* requests.post(...) or .json() raises: no answer from the gateway
TransportFailures == [kind : {"transport"}, code : {"none"}]

LoginAnswers ==
    [kind : {"result"}, code : ResultCodes, ubus_rpc_session : SessionIds] \cup Faults \cup TransportFailures

NetworkAnswers ==
    [kind : {"result"}, code : ResultCodes, values : NetworkConfigs] \cup Faults \cup TransportFailures

MobileAnswers ==
    [kind : {"result"}, code : ResultCodes, mobile : Mobiles] \cup Faults \cup TransportFailures

PlainAnswers ==
    [kind : {"result"}, code : ResultCodes] \cup Faults \cup TransportFailures

CallSites == {"login", "resolve", "info", "set1", "set2", "apply"}

----------------------------------------------------------------------------
(* _json_rpc *)

\* params[0]: self.session or "000..."
Token(s) == IF s = None \/ s = "" THEN Placeholder ELSE s

IsFault(answer) == answer.kind = "error"

\* requests.post(...).json() raised before a result was read
IsTransport(answer) == answer.kind = "transport"

\* self.request_num += 1, the statement after requests.post(...).json()
NextRequestNum(answer) ==
    IF IsTransport(answer) THEN request_num ELSE request_num + 1

\* request ids above MaxRequestNum are not told apart
Lumped(id) == IF id > MaxRequestNum THEN MaxRequestNum + 1 ELSE id

\* One _json_rpc call made from position pc with the stored session.
JsonRpc(answer) ==
    /\ lastCall' = [action |-> pc, id |-> request_num, token |-> Token(session),
                    kind |-> answer.kind, code |-> answer.code]
    /\ request_num' = Lumped(NextRequestNum(answer))
    /\ fresh' = FALSE

ExceptSessionKeep(answer) == session

ExceptSessionAny(answer) == None

\* except JsonRPCError as e: if e.code == '-32002': self.session = None
ExceptSession(answer) ==
    IF answer.code = InvalidSession THEN None ELSE session

\* for network in networks.values(): if 'modem' in network: ... break
RECURSIVE FirstModem(_)
FirstModem(sections) ==
    IF sections = <<>> THEN None
    ELSE IF Head(sections) # NoField THEN Head(sections)
    ELSE FirstModem(Tail(sections))

\* self.master: the primary link
Master == mav_master[1]

\* links = mav_master | [master]; links += mav_outputs
Links ==
    LET links == IF sendalllinks THEN mav_master ELSE <<Master>>
    IN  IF sendalloutputs THEN links \o mav_outputs ELSE links

\* hasattr(link.mav, "cellular_status_send")
Message(link) ==
    [link |-> link,
     msg  |-> IF link \in RichLinks THEN "cellular_status" ELSE "radio_status"]

----------------------------------------------------------------------------
----------------------------------------------------------------------------
(* The signal strength of a modem field map.  A field is absent, holds a text
   that float() rejects, or holds a decimal numeral, kept in tenths. *)

MaxHalves == 3          \* numerals explored: -MaxHalves/2 .. MaxHalves/2 in halves

SignalKeys == <<"signal", "rsrp", "rscp", "rsrq">>
Unknown    == 255

Absent   == [t |-> "absent", tenths |-> 0]
Text     == [t |-> "text", tenths |-> 0]
Num(n)   == [t |-> "num", tenths |-> n]
FieldValues == {Absent, Text} \cup {Num(5 * k) : k \in -MaxHalves..MaxHalves}
FieldMaps   == [{SignalKeys[i] : i \in 1..Len(SignalKeys)} -> FieldValues]
NoInfo      == [k \in {SignalKeys[i] : i \in 1..Len(SignalKeys)} |-> Absent]
NotReported == [done |-> FALSE, rssi |-> 0]

\* int(float(value.strip())): the numeral cut towards zero
IntOfFloat(v) == IF v.tenths >= 0 THEN v.tenths \div 10 ELSE -((-v.tenths) \div 10)

\* _any_int: the first key whose value is there and converts; None otherwise
RECURSIVE _any_int(_, _)
_any_int(map, keys) ==
    IF keys = <<>> THEN [found |-> FALSE, n |-> 0]
    ELSE IF map[Head(keys)].t = "num"
         THEN [found |-> TRUE, n |-> IntOfFloat(map[Head(keys)])]
         ELSE _any_int(map, Tail(keys))

\* <optional int> or d: d when the left side is None or 0
OrDefault(r, d) == IF r.found /\ r.n # 0 THEN r.n ELSE d

\* rssi = -(_any_int(info['mobile'], 'signal', 'rsrp', 'rscp', 'rsrq') or -255)
Rssi(map) == -OrDefault(_any_int(map, SignalKeys), -Unknown)

----------------------------------------------------------------------------
(* incoming_sms.  A body is the list of its blank-separated tokens after the
   prefix; a token is a word or a decimal numeral kept in tenths (written
   without a point when it is whole).  The numerals explored are 0.3 and the
   halves, whose sums in binary floating point are exact or away from the
   threshold.  The host is taken to have the cmdlong module loaded and the
   vehicle's SYS_STATUS, GLOBAL_POSITION_INT and WIND messages at hand. *)

Word(w) == [t |-> w, tenths |-> 0]

\* float(token) succeeds
IsFloat(token) == token.t = "num"
\* int(token) succeeds
IsInt(token) == token.t = "num" /\ token.tenths % 10 = 0
IntOf(token) == token.tenths \div 10

Abs(n) == IF n < 0 THEN -n ELSE n

Threshold == 5          \* 0.5, in tenths
NED == "MAV_FRAME_LOCAL_OFFSET_NED"
FRD == "MAV_FRAME_BODY_OFFSET_FRD"
CompassTokens == {"s", "e", "w", "n", "north", "south", "east", "west"}
FlightModes   == {"GUIDED", "AUTO"}

Outcome(r, texts, commands, shown) ==
    [reply |-> r, sms |-> texts, cmds |-> commands, moving |-> shown]
Command(c, a, px, py) == [cmd |-> c, arg |-> a, x |-> px, y |-> py]

\* an exception leaves incoming_sms
Raised == Outcome("raise", <<>>, <<>>, <<>>)

\* return "DISABLED"
Disabled == Outcome("DISABLED", <<>>, <<>>, <<>>)

AcknowledgeBySms == Outcome("Thanks", <<"thanks">>, <<>>, <<>>)

\* return "Thanks" (the send_sms before it is commented out)
Acknowledge == Outcome("Thanks", <<>>, <<>>, <<>>)

\* self.send_sms(sender, <usage or mode text>); return "OK"
Rejected(text) == Outcome("OK", <<text>>, <<>>, <<>>)

\* a branch that runs to the final return "Thanks"
Done(texts, commands, shown) == Outcome("Thanks", texts, commands, shown)

GuidedAlways == TRUE

\* self.master.flightmode != 'GUIDED' (negated)
Guided == flightmode = "GUIDED"

\* cos(radians(bearing)), sin(radians(bearing)) for the quarter turns; the
\* residue of order 1e-16 that the floating-point functions leave in place of
\* 0 is dropped
Cos(bearing) == CASE bearing % 360 = 0 -> 1 [] bearing % 360 = 90 -> 0
                  [] bearing % 360 = 180 -> -1 [] bearing % 360 = 270 -> 0
Sin(bearing) == CASE bearing % 360 = 0 -> 0 [] bearing % 360 = 90 -> 1
                  [] bearing % 360 = 180 -> 0 [] bearing % 360 = 270 -> -1

ContributionUnsigned(distance, direction, pos, neg) ==
    IF direction \in pos \cup neg THEN distance ELSE 0

\* distance if direction in pos else -distance if direction in neg else 0
Contribution(distance, direction, pos, neg) ==
    IF direction \in pos THEN distance ELSE IF direction \in neg THEN -distance ELSE 0

\* the frame test of the move branch
CompassFrame(direction1, direction2) ==
    direction1 \in CompassTokens /\ direction2 \in {""} \cup CompassTokens

MovesVehicleAtThreshold(dx, dy) == Abs(dx) >= Threshold \/ Abs(dy) >= Threshold

\* if abs(distance_x) > 0.5 or abs(distance_y) > 0.5:
MovesVehicle(dx, dy) == Abs(dx) > Threshold \/ Abs(dy) > Threshold

\* print(f"Moving ..."); then the position target when the move is large enough
Displace(frame, dx, dy) ==
    Done(<<>>,
         IF MovesVehicle(dx, dy)
         THEN <<Command("set_position_target_local_ned", frame, dx, dy)>>
         ELSE <<>>,
         <<dx, dy>>)

\* the text of a direction token after .lower()
Lower(token) == IF token.t = "num" THEN "numeral" ELSE token.t

\* elif cmd == 'move':
Move(args) ==
    IF Len(args) \notin {3, 5} THEN Rejected("usage")
    ELSE IF ~Guided THEN Rejected("not guided")
    ELSE IF ~IsFloat(args[2]) \/ (Len(args) = 5 /\ ~IsFloat(args[4])) THEN Raised
    ELSE LET distance1  == args[2].tenths
             direction1 == Lower(args[3])
             distance2  == IF Len(args) = 5 THEN args[4].tenths ELSE 0
             direction2 == IF Len(args) = 5 THEN Lower(args[5]) ELSE ""
             hasBearing == direction2 = "" /\ IsInt(args[3])
             bearing    == IntOf(args[3])
             compass    == CompassFrame(direction1, direction2)
             pos_x      == IF compass THEN {"n", "north"} ELSE {"fwd"}
             neg_x      == IF compass THEN {"s", "south"} ELSE {"aft"}
             pos_y      == IF compass THEN {"e", "east"} ELSE {"stb"}
             neg_y      == IF compass THEN {"w", "west"} ELSE {"port"}
         IN  IF hasBearing
             THEN Displace(NED, distance1 * Cos(bearing), distance1 * Sin(bearing))
             ELSE Displace(IF compass THEN NED ELSE FRD,
                           Contribution(distance1, direction1, pos_x, neg_x)
                             + Contribution(distance2, direction2, pos_x, neg_x),
                           Contribution(distance1, direction1, pos_y, neg_y)
                             + Contribution(distance2, direction2, pos_y, neg_y))

\* elif cmd in ("goto", "go"):
Goto(args) ==
    IF Len(args) \notin {3, 5} THEN Rejected("usage")
    ELSE IF ~Guided THEN Rejected("not guided")
    ELSE IF Len(args) = 3
    THEN IF ~IsFloat(args[2]) \/ ~IsFloat(args[3]) THEN Raised
         ELSE Done(<<"going to">>,
                   <<Command("set_position_target_global_int", "0",
                             args[2].tenths, args[3].tenths)>>, <<>>)
    ELSE IF ~IsFloat(args[2]) \/ ~IsFloat(args[4]) THEN Raised
         ELSE Done(<<"going to">>,
                   <<Command("set_position_target_global_int", "0",
                             args[2].tenths * (IF args[3].t = "N" THEN 1 ELSE -1),
                             args[4].tenths * (IF args[5].t = "E" THEN 1 ELSE -1))>>,
                   <<>>)

SetMode(mode) == Command("set_mode", mode, 0, 0)

\* if message.startswith("!!"): args = ...; cmd = args[0].lower(); ...
Dispatch(args) ==
    IF args = <<>> THEN Raised
    ELSE LET cmd == Lower(args[1]) IN
         CASE cmd = "arm" -> Done(<<>>, <<Command("arm", "1", 0, 0)>>, <<>>)
           [] cmd = "status" -> Done(<<"status">>, <<>>, <<>>)
           [] cmd \in {"rtl", "auto", "guided", "hold"} ->
                 Done(<<>>, <<SetMode(cmd)>>, <<>>)
           [] cmd \in {"loit", "loiter", "pause"} -> Done(<<>>, <<SetMode("loiter")>>, <<>>)
           [] cmd = "move" -> Move(args)
           [] cmd \in {"goto", "go"} -> Goto(args)
           [] cmd = "speed" ->
                 IF Len(args) # 2 THEN Rejected("usage")
                 ELSE Done(<<>>, <<Command("do_change_speed", "args", 0, 0)>>, <<>>)
           [] cmd \in {"start", "resume"} ->
                 Done(<<>>,
                      (IF flightmode = "AUTO" THEN <<SetMode("loiter")>> ELSE <<>>)
                         \o <<SetMode("auto")>>,
                      <<>>)
           [] cmd = "wp" ->
                 IF Len(args) # 2 THEN Rejected("usage")
                 ELSE IF ~IsInt(args[2]) THEN Raised
                 ELSE Done(<<>>, <<Command("waypoint_set_current", "n", IntOf(args[2]), 0)>>, <<>>)
           [] OTHER -> Done(<<"unknown command">>, <<>>, <<>>)

\* def incoming_sms(self): what one request does
incoming_sms(req) ==
    IF ~sms_enabled THEN Disabled
    ELSE IF ~req.decodable THEN Raised
    ELSE IF req.prefix THEN Dispatch(req.args)
    ELSE Acknowledge

(* The requests explored *)

Body(args)          == [decodable |-> TRUE, prefix |-> TRUE, args |-> args]
Plain(args)         == [decodable |-> TRUE, prefix |-> FALSE, args |-> args]
Undecodable         == [decodable |-> FALSE, prefix |-> FALSE, args |-> <<>>]

Distances  == {Num(3), Word("abc")} \cup {Num(5 * k) : k \in -MaxHalves..MaxHalves}
Directions == {Word(w) : w \in {"n", "s", "e", "w", "north", "fwd", "aft", "port",
                                "stb", "up"}}
                 \cup {Num(0), Num(900), Num(1800), Num(2700), Num(5)}
Hemispheres == {Word("N"), Word("S"), Word("E"), Word("W")}
Coordinates == {Num(515), Word("abc")}

MoveRequests ==
    {Body(<<Word("move"), d, t>>) : d \in Distances, t \in Directions}
      \cup {Body(<<Word("move"), d[1], t[1], d[2], t[2]>>) :
               d \in Distances \X Distances, t \in Directions \X Directions}
      \cup {Body(<<Word("move")>>), Body(<<Word("move"), Num(50)>>),
            Body(<<Word("move"), Num(50), Word("n"), Num(50)>>)}

GotoRequests ==
    {Body(<<Word(c), a, b>>) : c \in {"goto", "go"}, a \in Coordinates, b \in Coordinates}
      \cup {Body(<<Word("goto"), a, h, b, g>>) :
               a \in Coordinates, b \in Coordinates, h \in Hemispheres, g \in Hemispheres}
      \cup {Body(<<Word("goto")>>), Body(<<Word("goto"), Num(515)>>)}

OtherRequests ==
    {Body(<<>>), Undecodable, Plain(<<Word("hello")>>),
     Plain(<<Word("move"), Num(50), Word("n")>>)}
      \cup {Body(<<Word(c)>>) : c \in {"arm", "status", "rtl", "auto", "guided", "hold",
                                       "loit", "loiter", "pause", "start", "resume",
                                       "speed", "wp", "dance"}}
      \cup {Body(<<Word("speed"), Num(50)>>), Body(<<Word("speed"), Num(50), Num(50)>>),
            Body(<<Word("wp"), Num(20)>>), Body(<<Word("wp"), Word("abc")>>),
            Body(<<Word("wp"), Num(25)>>), Body(<<Word("wp"), Num(20), Num(30)>>)}

Requests == MoveRequests \cup GotoRequests \cup OtherRequests

InitSms ==
    /\ sms_enabled = FALSE
    /\ flightmode = "AUTO"
    /\ lastSms = Undecodable
    /\ reply = "none"
    /\ smsOut = <<>>
    /\ cmds = <<>>
    /\ moving = <<>>
    /\ during = "none"

SmsSessionCleared == None

\* incoming_sms has no assignment to self.session
SmsSession == session

\* a request arrives at the /sms endpoint
IncomingSms(req) ==
    /\ lastSms' = req
    /\ reply' = incoming_sms(req).reply
    /\ smsOut' = incoming_sms(req).sms
    /\ cmds' = incoming_sms(req).cmds
    /\ moving' = incoming_sms(req).moving
    /\ during' = pc
    /\ session' = SmsSession
    /\ UNCHANGED <<settings, started, last_status, last_update, last_login,
                   last_status_message_update, modem, request_num, host, time,
                   tick, observed, signal, sms_enabled, flightmode, joy>>

\* teltonika set sms_enabled <bool>
CmdSetSmsEnabled(v) ==
    /\ pc = "idle"
    /\ sms_enabled' = v
    /\ UNCHANGED <<settings, fields, host, time, tick, observed, signal,
                   flightmode, smsSeen, joy>>

----------------------------------------------------------------------------
(* mavproxy_joystick: Joystick.detect_disconnected.  A device is its GUID and
   the instance id it got when it was plugged in.  The rebinding at line 157
   names controls.Jostick; controls.py decides whether that attribute exists:
   if it does not the lookup raises AttributeError, if it does the binding is
   replaced and the loop is left with found still False. *)

MaxDevices == 2         \* devices listed at once; instance ids 0..MaxDevices

Guids       == {"guidA", "guidB"}
Device(g, i) == [guid |-> g, instance |-> i]
Devices     == {Device(g, i) : g \in Guids, i \in 0..MaxDevices}
NoJoystick  == [guid |-> "None", instance |-> -1]
NotDetected == [done |-> FALSE, exit |-> "none", before |-> NoJoystick]

\* the lists pygame can hold: every instance id at most once
DeviceLists ==
    {list \in UNION {[1..n -> Devices] : n \in 0..MaxDevices} :
        \A i, j \in 1..Len(list) : i # j => list[i].instance # list[j].instance}

\* for jid in range(pygame.joystick.get_count()): the first index whose device
\* has the GUID of the bound joystick, 0 if there is none
RECURSIVE FirstSameGuid(_, _, _)
FirstSameGuid(list, bound, jid) ==
    IF jid > Len(list) THEN 0
    ELSE IF list[jid].guid = bound.guid THEN jid
    ELSE FirstSameGuid(list, bound, jid + 1)

\* what self.joystick is at the end of a call that rebound it to a device:
\* found is still False, so line 161 sets it to None
Rebound(device) == NoJoystick

\* def detect_disconnected(self), with hasJostick telling whether
\* controls.Jostick exists
detect_disconnected(hasJostick) ==
    LET jid == FirstSameGuid(devices, joystick, 1) IN
    IF joystick = NoJoystick THEN [joystick |-> joystick, exit |-> "return"]
    ELSE IF jid = 0 THEN [joystick |-> NoJoystick, exit |-> "return"]
    ELSE IF devices[jid].instance = joystick.instance
         THEN [joystick |-> joystick, exit |-> "return"]
    ELSE IF hasJostick THEN [joystick |-> Rebound(devices[jid]), exit |-> "return"]
    ELSE [joystick |-> joystick, exit |-> "raise"]

InitJoystick ==
    /\ joystick = NoJoystick
    /\ devices = <<>>
    /\ detected = NotDetected

DetectDisconnected(hasJostick) ==
    /\ ~detected.done
    /\ joystick' = detect_disconnected(hasJostick).joystick
    /\ detected' = [done |-> TRUE, exit |-> detect_disconnected(hasJostick).exit,
                    before |-> joystick]
    /\ UNCHANGED <<settings, fields, host, time, tick, observed, signal, sms, devices>>

Init ==
    /\ router = None
    /\ sendalllinks = FALSE
    /\ sendalloutputs = FALSE
    /\ started = FALSE
    /\ session = None
    /\ last_status = None
    /\ last_update = 0
    /\ last_login = 0
    /\ last_status_message_update = 0
    /\ modem = None
    /\ request_num = 1
    /\ mav_master = ConfiguredLinks
    /\ mav_outputs = OutputLinks
    /\ clock = StartTime
    /\ advances = 0
    /\ now = 0
    /\ pc = "idle"
    /\ lastCall = [action |-> None, id |-> 0, token |-> None, kind |-> None, code |-> None]
    /\ loginAt = -1
    /\ pollAt = -1
    /\ exit = "none"
    /\ sent = <<>>
    /\ pub = FALSE
    /\ skipped = FALSE
    /\ fresh = FALSE
    /\ info = NoInfo
    /\ reported = NotReported
    /\ InitSms
    /\ InitJoystick

----------------------------------------------------------------------------
(* Environment *)

Advance(d) ==
    /\ pc = "idle"
    /\ advances < MaxAdvances
    /\ clock' = clock + d
    /\ advances' = advances + 1
    /\ UNCHANGED <<settings, fields, host, tick, observed>>
    /\ UNCHANGED apart

----------------------------------------------------------------------------
(* cmd_teltonika *)

\* teltonika set router <address>
CmdSetRouter(r) ==
    /\ pc = "idle"
    /\ router' = r
    /\ UNCHANGED <<sendalllinks, sendalloutputs, fields, host, time, tick, observed>>
    /\ UNCHANGED apart

\* teltonika set sendalllinks <bool>
CmdSetSendAllLinks(v) ==
    /\ pc = "idle"
    /\ sendalllinks' = v
    /\ UNCHANGED <<router, sendalloutputs, fields, host, time, tick, observed>>
    /\ UNCHANGED apart

\* teltonika set sendalloutputs <bool>
CmdSetSendAllOutputs(v) ==
    /\ pc = "idle"
    /\ sendalloutputs' = v
    /\ UNCHANGED <<router, sendalllinks, fields, host, time, tick, observed>>
    /\ UNCHANGED apart

\* teltonika start -> cmd_start
CmdStart ==
    /\ pc = "idle"
    /\ started' = IF router = None THEN started ELSE TRUE
    /\ fresh' = IF ~started /\ started' THEN TRUE ELSE fresh
    /\ UNCHANGED <<settings, session, last_status, last_update, last_login,
                   last_status_message_update, modem, request_num, host, time,
                   tick, lastCall, loginAt, pollAt, exit, sent, pub, skipped>>
    /\ UNCHANGED apart

\* teltonika stop
CmdStop ==
    /\ pc = "idle"
    /\ started' = FALSE
    /\ session' = None
    /\ last_status' = None
    /\ fresh' = FALSE
    /\ UNCHANGED <<settings, last_update, last_login, last_status_message_update,
                   modem, request_num, host, time, tick, lastCall, loginAt, pollAt,
                   exit, sent, pub, skipped>>
    /\ UNCHANGED apart

----------------------------------------------------------------------------
(* idle_task *)

Return == pc' = "idle" /\ exit' = "return"
Raise  == pc' = "idle" /\ exit' = "raise"

LoginDueAt(t) == t - last_login >= LoginInterval

\* now - self.last_login > 5
LoginDue(t) == t - last_login > LoginInterval

PollDueAt(t) == t - last_update >= 1 \div freq

\* now - self.last_update > 1 / self.teltonika_settings.freq
PollDue(t) == t - last_update > 1 \div freq

\* now - self.last_status_message_update > 30
PublishDue(t) == t - last_status_message_update > PublishInterval

PollTargetAlwaysResolve == "resolve"

\* if self.modem is None: (resolve first) ... self._json_rpc(... "mobile_info" ...)
PollTarget == IF modem = None THEN "resolve" ELSE "info"

SnapshotAnyCode(answer) == answer.mobile

\* if result == 0: ... self.last_status = info['mobile']
Snapshot(answer) == IF answer.code = 0 THEN answer.mobile ELSE last_status

PublishStampOnZero(answer) ==
    IF answer.kind = "result" /\ answer.code = 0 THEN now ELSE last_status_message_update

\* self.last_status_message_update = now (skipped when a call raised)
PublishStamp(answer) ==
    IF IsFault(answer) \/ IsTransport(answer) THEN last_status_message_update ELSE now

\* if not self.started: return
TickNotStarted ==
    /\ pc = "idle"
    /\ ~started
    /\ exit' = "return"
    /\ sent' = <<>>
    /\ pub' = FALSE
    /\ UNCHANGED <<settings, fields, host, time, tick, lastCall, loginAt, pollAt,
                   skipped, fresh>>
    /\ UNCHANGED apart

\* now = time.time(); if self.session is None: if now - self.last_login > 5: ...
TickBegin ==
    /\ pc = "idle"
    /\ started
    /\ now' = clock
    /\ exit' = "none"
    /\ sent' = <<>>
    /\ pub' = FALSE
    /\ IF session = None /\ LoginDue(clock)
       THEN /\ last_login' = clock
            /\ pc' = "login"
       ELSE /\ pc' = "poll"
            /\ UNCHANGED last_login
    /\ UNCHANGED <<settings, started, session, last_status, last_update,
                   last_status_message_update, modem, request_num, host, time,
                   lastCall, loginAt, pollAt, skipped, fresh>>
    /\ UNCHANGED apart

\* login_result, login_response = self._json_rpc("call", "session", "login", ...)
LoginReturn(answer) ==
    /\ pc = "login"
    /\ JsonRpc(answer)
    /\ loginAt' = now
    /\ IF IsTransport(answer) \/ IsFault(answer)
       THEN Raise /\ UNCHANGED session
       ELSE IF answer.code = 0
            THEN /\ session' = answer.ubus_rpc_session
                 /\ pc' = "poll"
                 /\ UNCHANGED exit
            ELSE Return /\ UNCHANGED session
    /\ UNCHANGED <<settings, started, last_status, last_update, last_login,
                   last_status_message_update, modem, host, time, now, pollAt,
                   sent, pub, skipped>>
    /\ UNCHANGED apart

\* if now - self.last_update > 1 / self.teltonika_settings.freq: ... if self.modem is None:
PollStep ==
    /\ pc = "poll"
    /\ pc' = IF PollDue(now) THEN PollTarget ELSE "publish"
    /\ UNCHANGED <<settings, fields, host, time, now, observed>>
    /\ UNCHANGED apart

\* result, info = self._json_rpc("call", "uci", "get", config='network')
ResolveReturn(answer) ==
    /\ pc = "resolve"
    /\ JsonRpc(answer)
    /\ IF IsTransport(answer)
       THEN Raise /\ UNCHANGED <<session, modem>>
       ELSE IF IsFault(answer)
       THEN /\ session' = ExceptSession(answer)
            /\ pc' = "publish"
            /\ UNCHANGED <<modem, exit>>
       ELSE /\ modem' = IF answer.code = 0 THEN FirstModem(answer.values) ELSE modem
            /\ IF modem' = None
               THEN Return
               ELSE pc' = "info" /\ UNCHANGED exit
            /\ UNCHANGED session
    /\ UNCHANGED <<settings, started, last_status, last_update, last_login,
                   last_status_message_update, host, time, now, loginAt, pollAt,
                   sent, pub, skipped>>
    /\ UNCHANGED apart

\* result, info = self._json_rpc("call", "vuci.network.mobile", "mobile_info", modem=self.modem)
InfoReturn(answer) ==
    /\ pc = "info"
    /\ JsonRpc(answer)
    /\ IF IsTransport(answer)
       THEN /\ Raise
            /\ UNCHANGED <<session, last_status, last_update, mav_master, sent, pollAt>>
       ELSE IF IsFault(answer)
       THEN /\ session' = ExceptSession(answer)
            /\ pc' = "publish"
            /\ UNCHANGED <<last_status, last_update, mav_master, sent, pollAt, exit>>
       ELSE /\ last_status' = Snapshot(answer)
            /\ pc' = "publish"
            /\ IF answer.code = 0
               THEN /\ mav_master' = IF sendalllinks THEN Links ELSE mav_master
                    /\ last_update' = now
                    /\ pollAt' = now
                    /\ sent' = [i \in 1..Len(Links) |-> Message(Links[i])]
               ELSE UNCHANGED <<last_update, mav_master, sent, pollAt>>
            /\ UNCHANGED <<session, exit>>
    /\ UNCHANGED <<settings, started, last_login, last_status_message_update,
                   modem, mav_outputs, time, now, loginAt, pub, skipped>>
    /\ UNCHANGED apart

\* if self.session is not None: if now - self.last_status_message_update > 30:
PublishStep(position) ==
    /\ pc = "publish"
    /\ IF session # None /\ PublishDue(now)
       THEN /\ pub' = TRUE
            /\ IF position # None
               THEN pc' = "set1" /\ UNCHANGED <<exit, skipped>>
               ELSE Return /\ skipped' = TRUE
       ELSE Return /\ UNCHANGED <<pub, skipped>>
    /\ UNCHANGED <<settings, fields, host, time, now, lastCall, loginAt, pollAt, sent,
                   fresh>>
    /\ UNCHANGED apart

\* sr, sr2: the two uci set calls
TemplateReturn(answer) ==
    /\ pc \in {"set1", "set2"}
    /\ JsonRpc(answer)
    /\ IF IsTransport(answer)
       THEN Raise /\ UNCHANGED session
       ELSE IF IsFault(answer)
       THEN session' = ExceptSession(answer) /\ Return
       ELSE /\ pc' = IF pc = "set1" THEN "set2" ELSE "apply"
            /\ UNCHANGED <<session, exit>>
    /\ UNCHANGED <<settings, started, last_status, last_update, last_login,
                   last_status_message_update, modem, host, time, now, loginAt,
                   pollAt, sent, pub, skipped>>
    /\ UNCHANGED apart

\* ar, _ = self._json_rpc("call", "uci", "apply", timeout=10)
ApplyReturn(answer) ==
    /\ pc = "apply"
    /\ JsonRpc(answer)
    /\ IF IsTransport(answer) THEN Raise ELSE Return
    /\ last_status_message_update' = PublishStamp(answer)
    /\ session' = IF IsFault(answer) THEN ExceptSession(answer) ELSE session
    /\ skipped' = (skipped /\ answer.kind # "result")
    /\ UNCHANGED <<settings, started, last_status, last_update, last_login,
                   modem, host, time, now, loginAt, pollAt, sent, pub>>
    /\ UNCHANGED apart

----------------------------------------------------------------------------
Next ==
    \/ \E d \in Deltas : Advance(d)
    \/ \E r \in Routers \cup {None} : CmdSetRouter(r)
    \/ CmdStart
    \/ CmdStop
    \/ TickNotStarted
    \/ TickBegin
    \/ \E answer \in LoginAnswers : LoginReturn(answer)
    \/ PollStep
    \/ \E answer \in NetworkAnswers : ResolveReturn(answer)
    \/ \E answer \in MobileAnswers : InfoReturn(answer)
    \/ \E position \in Positions : PublishStep(position)
    \/ \E answer \in PlainAnswers : TemplateReturn(answer)
    \/ \E answer \in PlainAnswers : ApplyReturn(answer)

Spec == Init /\ [][Next]_vars

----------------------------------------------------------------------------
(* The link fan-out of the poll, with a gateway that answers every call with
   result code 0 and a vehicle whose position is not known. *)

LoginOk   == [kind |-> "result", code |-> 0, ubus_rpc_session |-> "sidA"]
NetworkOk == [kind |-> "result", code |-> 0, values |-> <<NoField, "modemB">>]
MobileOk  == [kind |-> "result", code |-> 0, mobile |-> "mobile1"]

NextLinks ==
    \/ \E d \in Deltas : Advance(d)
    \/ \E r \in Routers : CmdSetRouter(r)
    \/ \E v \in BOOLEAN : CmdSetSendAllLinks(v)
    \/ \E v \in BOOLEAN : CmdSetSendAllOutputs(v)
    \/ CmdStart
    \/ TickNotStarted
    \/ TickBegin
    \/ LoginReturn(LoginOk)
    \/ PollStep
    \/ ResolveReturn(NetworkOk)
    \/ InfoReturn(MobileOk)
    \/ PublishStep(None)

SpecLinks == Init /\ [][NextLinks]_vars

----------------------------------------------------------------------------
(* The signal computation on its own, applied to every field map. *)

ReportSignal ==
    /\ ~reported.done
    /\ reported' = [done |-> TRUE, rssi |-> Rssi(info)]
    /\ UNCHANGED <<settings, fields, host, time, tick, observed, info, sms, joy>>

InitSignal ==
    /\ info \in FieldMaps
    /\ reported = NotReported
    /\ router = None /\ sendalllinks = FALSE /\ sendalloutputs = FALSE
    /\ started = FALSE /\ session = None /\ last_status = None
    /\ last_update = 0 /\ last_login = 0 /\ last_status_message_update = 0
    /\ modem = None /\ request_num = 1
    /\ mav_master = ConfiguredLinks /\ mav_outputs = OutputLinks
    /\ clock = StartTime /\ advances = 0 /\ now = 0 /\ pc = "idle"
    /\ lastCall = [action |-> None, id |-> 0, token |-> None, kind |-> None, code |-> None]
    /\ loginAt = -1 /\ pollAt = -1 /\ exit = "none"
    /\ sent = <<>> /\ pub = FALSE /\ skipped = FALSE /\ fresh = FALSE
    /\ InitSms
    /\ InitJoystick

NextSignal == ReportSignal

SpecSignal == InitSignal /\ [][NextSignal]_vars

----------------------------------------------------------------------------
(* Steps of the tick seen from outside *)

\* idle_task is entered with the module started
TickStarts == pc = "idle" /\ pc' # "idle"

\* the step is one _json_rpc call, answered
CallStep == pc \in CallSites /\ pc' # pc

\* the most recent call answered with the invalid-session fault
LastFaultInvalid == lastCall.kind = "error" /\ lastCall.code = InvalidSession

\* lastPollTime: the time of the last successful poll, 0 before the first one
LastPollTime == IF pollAt < 0 THEN 0 ELSE pollAt

----------------------------------------------------------------------------
(* C1 (as stated): with the module started and no session, after a login
   call at time t no tick earlier than t+5 issues a login call, and a tick
   at t+5 or later does. *)
C1AsStated ==
    [][(TickStarts /\ session = None /\ loginAt >= 0) =>
          /\ (clock < loginAt + LoginInterval => pc' # "login")
          /\ (clock >= loginAt + LoginInterval => pc' = "login")]_vars

(* C1 (amended): with the module started and no session, after a login call
   at time t (whatever its outcome) no tick at t+5 or earlier issues a login
   call, and every tick later than t+5 does. *)
C1LoginRateLimit ==
    [][(TickStarts /\ session = None /\ loginAt >= 0) =>
          (pc' = "login" <=> clock > loginAt + LoginInterval)]_vars

\* a second login call is being issued, 6 seconds after the previous one
C1Witness ==
    /\ pc = "login"
    /\ loginAt >= 0
    /\ now = loginAt + LoginInterval + 1

(* C2: the call that follows an invalid-session fault carries the
   placeholder token, not the token held when the fault occurred. *)
C2PlaceholderAfterExpiry ==
    [][(CallStep /\ LastFaultInvalid) =>
          /\ lastCall'.token = Placeholder
          /\ (lastCall.token # Placeholder => lastCall'.token # lastCall.token)]_vars

\* a call is being issued after a fault that hit a real session token, at a
\* time when a login is not yet allowed again
C2Witness ==
    /\ pc \in {"resolve", "info"}
    /\ LastFaultInvalid
    /\ lastCall.token \in SessionIds

(* C3: within a tick the session goes from present to absent only in a call
   that faults with exactly the invalid-session code; a call that faults
   with another code leaves the session as it was. *)
C3OnlyExpiryClearsSession ==
    [][/\ (pc # "idle" /\ session # None /\ session' = None) =>
              (CallStep /\ lastCall'.kind = "error" /\ lastCall'.code = InvalidSession)
       /\ (CallStep /\ lastCall'.kind = "error" /\ lastCall'.code # InvalidSession) =>
              session' = session]_vars

\* a call under a real session faulted with another code and the session stays
C3Witness ==
    /\ lastCall.kind = "error"
    /\ lastCall.code # InvalidSession
    /\ lastCall.token \in SessionIds
    /\ session = lastCall.token

(* C4 (as stated): no modem-resolution call and no modem-info call is
   issued by a tick while the session is absent. *)
C4NoPollWithoutSession ==
    pc \in {"resolve", "info"} => session # None

(* C5 (as stated): the snapshot and the poll timestamp change only in a
   tick whose modem-info call returned code 0; a resolution or modem-info
   call that faults with the invalid-session code leaves both unchanged,
   clears the session and sends no telemetry message. *)
C5AsStated ==
    [][/\ (last_status' # last_status \/ last_update' # last_update) =>
              (pc = "info" /\ lastCall'.kind = "result" /\ lastCall'.code = 0)
       /\ (CallStep /\ pc \in {"resolve", "info"}
             /\ lastCall'.kind = "error" /\ lastCall'.code = InvalidSession) =>
              /\ UNCHANGED <<last_status, last_update>>
              /\ session' = None
              /\ sent' = <<>>]_vars

(* C5 (amended): the poll timestamp changes only in a tick whose modem-info
   call returned code 0, and so does the snapshot except that stop clears
   it; a resolution or modem-info call that faults with the invalid-session
   code leaves both unchanged, clears the session, and the tick sends no
   telemetry message. *)
C5SnapshotOnlyOnSuccess ==
    [][/\ (last_update' # last_update) =>
              (pc = "info" /\ lastCall'.kind = "result" /\ lastCall'.code = 0)
       /\ (last_status' # last_status) =>
              \/ pc = "info" /\ lastCall'.kind = "result" /\ lastCall'.code = 0
              \/ pc = "idle" /\ ~started' /\ last_status' = None
       /\ (CallStep /\ pc \in {"resolve", "info"}
             /\ lastCall'.kind = "error" /\ lastCall'.code = InvalidSession) =>
              /\ UNCHANGED <<last_status, last_update>>
              /\ session' = None
              /\ sent' = <<>>
              /\ pc' = "publish"
       /\ (pc = "publish" /\ lastCall.action \in {"resolve", "info"}
             /\ LastFaultInvalid) =>
              /\ sent' = <<>>
              /\ pc' = "idle"
              /\ lastCall' = lastCall]_vars

\* a modem-info call faulted with the invalid-session code after an earlier
\* successful poll: the earlier snapshot and timestamp are still there
C5Witness ==
    /\ pc = "publish"
    /\ lastCall.action = "info"
    /\ LastFaultInvalid
    /\ last_status # None
    /\ last_update = pollAt
    /\ last_update < now
    /\ sent = <<>>

(* C6 (as stated): whatever fault an RPC call answers with, idle_task
   returns normally to the host scheduler. *)
C6NoFaultEscapes ==
    (exit = "raise") => lastCall.kind # "error"

(* C7: the publish timestamp is set (to the tick's time) exactly when the
   apply call, reached through two template writes answered without a fault,
   is itself answered without a fault, whatever the three result codes; with
   no vehicle position no call is issued and the timestamp stays, so the
   publisher runs again on the next tick; a fault in one of the three calls
   ends the sequence and leaves the timestamp. *)
C7PublishStamp ==
    /\ [][/\ (last_status_message_update' # last_status_message_update) <=>
                 (pc = "apply" /\ CallStep /\ lastCall'.kind = "result")
          /\ (pc = "apply" /\ CallStep /\ lastCall'.kind = "result") =>
                 last_status_message_update' = now
          /\ (pc = "publish" /\ pc' = "idle" /\ pub') =>
                 /\ lastCall' = lastCall
                 /\ UNCHANGED last_status_message_update
          /\ (pc = "publish" /\ pc' = "idle" /\ pub') => skipped'
          /\ (pc = "publish" /\ pc' # pc /\ skipped /\ session # None) => pub'
          /\ (pc \in {"set1", "set2", "apply"} /\ CallStep /\ lastCall'.kind = "error") =>
                 /\ pc' = "idle"
                 /\ UNCHANGED last_status_message_update
          /\ (pc \in {"set1", "set2"} /\ CallStep /\ lastCall'.kind = "result") =>
                 pc' = (IF pc = "set1" THEN "set2" ELSE "apply")]_vars
    /\ [](pc = "set2" => lastCall.action = "set1" /\ lastCall.kind = "result")
    /\ [](pc = "apply" => lastCall.action = "set2" /\ lastCall.kind = "result")

\* the timestamp was set by a sequence whose apply call returned a non-zero code
C7Witness ==
    /\ pc = "idle"
    /\ lastCall.action = "apply"
    /\ lastCall.kind = "result"
    /\ lastCall.code # 0
    /\ last_status_message_update = now

(* C8 (as stated): the status publisher runs in every tick in which a
   session exists and now - lastPublishTime >= 30, whatever the poll step
   did and whether or not the modem handle is resolved. *)
C8PublisherRuns ==
    (pc = "idle" /\ exit = "return" /\ session # None
       /\ now - last_status_message_update >= PublishInterval) => pub

(* C9 (as stated): a tick performs the poll exactly when
   now - lastPollTime >= 1/frequency; no tick before that issues a
   modem-info call and a tick at exactly 1/frequency does poll. *)
C9AsStated ==
    [][(pc = "poll" /\ pc' # pc) =>
          (pc' \in {"resolve", "info"} <=> now - LastPollTime >= 1 \div freq)]_vars

(* C9 (amended): a tick that reaches the poll step performs the poll exactly
   when now - lastPollTime > 1/frequency, lastPollTime being the time of the
   last successful poll; no tick up to and including 1/frequency after the
   last successful poll issues a resolution or modem-info call. *)
C9PollDueByElapsedTime ==
    /\ [][(pc = "poll" /\ pc' # pc) =>
             (pc' \in {"resolve", "info"} <=> now - LastPollTime > 1 \div freq)]_vars
    /\ [](pc \in {"resolve", "info"} => now - LastPollTime > 1 \div freq)

\* a modem-info call is being issued 2 seconds after the last successful poll,
\* a tick at exactly 1 second having gone by
C9Witness ==
    /\ pc = "info"
    /\ pollAt >= 0
    /\ now = pollAt + (1 \div freq) + 1
    /\ advances = 2

(* C10: while the modem handle is None every poll cycle starts with the
   resolution call, and a cycle that leaves it None issues no modem-info
   call; once the handle is set nothing changes it and no resolution call
   is issued any more. *)
C10ModemResolvedOnce ==
    /\ [][/\ (modem # None => modem' = modem)
          /\ (pc = "poll" /\ pc' \in {"resolve", "info"} /\ modem = None) =>
                 pc' = "resolve"
          /\ (pc = "resolve" /\ CallStep /\ modem' = None) =>
                 pc' \in {"publish", "idle"}]_vars
    /\ [](pc = "resolve" => modem = None)
    /\ [](pc = "info" => modem # None)

\* the handle was resolved under an earlier session: after a later login the
\* poll goes straight to the modem-info call
C10Witness ==
    /\ pc = "info"
    /\ lastCall.action = "login"
    /\ loginAt > StartTime
    /\ modem # None

(* C13 (as stated): the request id starts at 1, is never reset, and grows by
   exactly one with every RPC call whatever its outcome (result code, fault
   envelope or transport failure), so successive calls carry 1, 2, 3, ...
   with no repeats. *)
C13RequestIds ==
    /\ [][/\ (CallStep /\ request_num <= MaxRequestNum) =>
                        /\ lastCall'.id = request_num
                        /\ request_num' = request_num + 1
                        /\ (lastCall.id > 0 => lastCall'.id = lastCall.id + 1)
          /\ ~CallStep => request_num' = request_num]_vars
    /\ [](lastCall.id = 0 => request_num = 1)

----------------------------------------------------------------------------
\* the links of a sequence
Range(seq) == {seq[i] : i \in 1..Len(seq)}

\* the links the claim names for the flags in force
ExpectedLinks ==
    {ConfiguredLinks[1]}
        \cup (IF sendalllinks THEN Range(ConfiguredLinks) ELSE {})
        \cup (IF sendalloutputs THEN Range(OutputLinks) ELSE {})

(* C11 (as stated): on every successful poll the links that get a telemetry
   message are exactly the primary link, plus the configured links when
   sendalllinks is set, plus the output links when sendalloutputs is set; a
   link with cellular_status_send gets cellular_status, any other link
   radio_status. *)
C11FanOut ==
    [][(pc = "info" /\ CallStep /\ lastCall'.kind = "result" /\ lastCall'.code = 0) =>
          /\ {sent'[i].link : i \in 1..Len(sent')} = ExpectedLinks
          /\ \A i \in 1..Len(sent') :
                sent'[i].msg = (IF sent'[i].link \in RichLinks
                                THEN "cellular_status" ELSE "radio_status")]_vars

----------------------------------------------------------------------------
(* The SMS endpoint on its own: one request, drawn from Requests, arrives
   under each setting of sms_enabled and each flight mode. *)

InitRequest ==
    /\ lastSms \in Requests
    /\ sms_enabled \in BOOLEAN
    /\ flightmode \in FlightModes
    /\ reply = "none" /\ smsOut = <<>> /\ cmds = <<>> /\ moving = <<>>
    /\ during = "none"
    /\ InitJoystick
    /\ info = NoInfo /\ reported = NotReported
    /\ router = None /\ sendalllinks = FALSE /\ sendalloutputs = FALSE
    /\ started = FALSE /\ session = None /\ last_status = None
    /\ last_update = 0 /\ last_login = 0 /\ last_status_message_update = 0
    /\ modem = None /\ request_num = 1
    /\ mav_master = ConfiguredLinks /\ mav_outputs = OutputLinks
    /\ clock = StartTime /\ advances = 0 /\ now = 0 /\ pc = "idle"
    /\ lastCall = [action |-> None, id |-> 0, token |-> None, kind |-> None, code |-> None]
    /\ loginAt = -1 /\ pollAt = -1 /\ exit = "none"
    /\ sent = <<>> /\ pub = FALSE /\ skipped = FALSE /\ fresh = FALSE

HandleRequest == reply = "none" /\ IncomingSms(lastSms)

NextSms == HandleRequest

SpecSms == InitRequest /\ [][NextSms]_vars

----------------------------------------------------------------------------
(* The tick and the SMS endpoint together: a request may be handled at any
   position of idle_task.  The gateway either answers with result code 0 or
   reports the session as invalid. *)

Expired == [kind |-> "error", code |-> InvalidSession]

ConcRequests ==
    {Body(<<Word("status")>>), Body(<<Word("move"), Num(15), Word("n")>>),
     Plain(<<Word("hello")>>)}

NextConc ==
    \/ \E d \in Deltas : Advance(d)
    \/ \E r \in Routers : CmdSetRouter(r)
    \/ \E v \in BOOLEAN : CmdSetSmsEnabled(v)
    \/ CmdStart
    \/ TickNotStarted
    \/ TickBegin
    \/ \E answer \in {LoginOk, Expired} : LoginReturn(answer)
    \/ PollStep
    \/ \E answer \in {NetworkOk, Expired} : ResolveReturn(answer)
    \/ \E answer \in {MobileOk, Expired} : InfoReturn(answer)
    \/ PublishStep(None)
    \/ \E req \in ConcRequests : IncomingSms(req)

SpecConc == Init /\ [][NextConc]_vars

----------------------------------------------------------------------------
(* The tick over unbounded time.  The passing of d seconds is seen from the new
   present: time.time() keeps its value and every remembered time moves back
   by d; times more than Horizon back are all far enough for every interval of
   idle_task and are not told apart.  The gateway answers every login with
   result code 0 and a session id; its other answers are a result code 0, an
   invalid-session fault or no answer at all. *)

Horizon == PublishInterval + 1

Back(t, d) == IF t - d < clock - Horizon THEN clock - Horizon ELSE t - d
BackSeen(t, d) == IF t = -1 THEN -1 ELSE Back(t, d)

Elapse(d) ==
    /\ pc = "idle"
    /\ last_login' = Back(last_login, d)
    /\ last_update' = Back(last_update, d)
    /\ last_status_message_update' = Back(last_status_message_update, d)
    /\ now' = Back(now, d)
    /\ loginAt' = BackSeen(loginAt, d)
    /\ pollAt' = BackSeen(pollAt, d)
    /\ UNCHANGED <<settings, started, session, last_status, modem, request_num,
                   host, time, pc, lastCall, exit, sent, pub, skipped, fresh, apart>>

LoginOks == [kind : {"result"}, code : {0}, ubus_rpc_session : SessionIds]
NoAnswer == [kind |-> "transport", code |-> "none"]

TickStep ==
    \/ TickBegin
    \/ \E answer \in LoginOks : LoginReturn(answer)
    \/ PollStep
    \/ \E answer \in {NetworkOk, Expired, NoAnswer} : ResolveReturn(answer)
    \/ \E answer \in {MobileOk, Expired, NoAnswer} : InfoReturn(answer)
    \/ PublishStep(None)

NextLive ==
    \/ \E d \in Deltas : Elapse(d)
    \/ \E r \in Routers : CmdSetRouter(r)
    \/ CmdStart
    \/ TickNotStarted
    \/ TickStep

\* ticks keep occurring and run to their end, and time keeps advancing
SpecLive ==
    /\ Init /\ [][NextLive]_vars
    /\ SF_vars(TickStep)
    /\ SF_vars(\E d \in Deltas : Elapse(d))

----------------------------------------------------------------------------
(* The joystick's disconnect detection on its own, applied to every binding
   and every list of present devices. *)

InitDetect ==
    /\ joystick \in Devices \cup {NoJoystick}
    /\ devices \in DeviceLists
    /\ detected = NotDetected
    /\ InitSms
    /\ info = NoInfo /\ reported = NotReported
    /\ router = None /\ sendalllinks = FALSE /\ sendalloutputs = FALSE
    /\ started = FALSE /\ session = None /\ last_status = None
    /\ last_update = 0 /\ last_login = 0 /\ last_status_message_update = 0
    /\ modem = None /\ request_num = 1
    /\ mav_master = ConfiguredLinks /\ mav_outputs = OutputLinks
    /\ clock = StartTime /\ advances = 0 /\ now = 0 /\ pc = "idle"
    /\ lastCall = [action |-> None, id |-> 0, token |-> None, kind |-> None, code |-> None]
    /\ loginAt = -1 /\ pollAt = -1 /\ exit = "none"
    /\ sent = <<>> /\ pub = FALSE /\ skipped = FALSE /\ fresh = FALSE

NextDetect == \E hasJostick \in BOOLEAN : DetectDisconnected(hasJostick)

SpecDetect == InitDetect /\ [][NextDetect]_vars

----------------------------------------------------------------------------
\* the keys of a field map that are there, in priority order
PresentKeys(map) == SelectSeq(SignalKeys, LAMBDA k : map[k].t # "absent")

(* C12 (as stated): the reported signal strength is the negation of the value
   of the first key present in the order signal, rsrp, rscp, rsrq, whatever
   that value is (0 included) and whatever later keys hold, and it is 255
   exactly when none of the four keys is present. *)
C12FirstPresentKey ==
    reported.done =>
        /\ (reported.rssi = Unknown) <=> (PresentKeys(info) = <<>>)
        /\ (PresentKeys(info) # <<>> /\ info[Head(PresentKeys(info))].t = "num") =>
              reported.rssi = -IntOfFloat(info[Head(PresentKeys(info))])

----------------------------------------------------------------------------
(* The cases of a handled request *)

Handled  == reply # "none"
Sentinel == Handled /\ sms_enabled /\ lastSms.decodable /\ lastSms.prefix
Named(words) == Sentinel /\ lastSms.args # <<>> /\ lastSms.args[1].t \in words
Argc     == Len(lastSms.args)
\* a move that got as far as printing its displacement
Moved    == Named({"move"}) /\ moving # <<>>
Acts     == {"set_position_target_local_ned", "set_position_target_global_int",
             "do_change_speed", "waypoint_set_current"}

(* C14: an inbound SMS whose body does not start with !! is acknowledged and
   causes no vehicle command, no RPC call and no outbound SMS; with SMS
   handling disabled every inbound SMS gets the disabled marker, with the same
   absence of effects. *)
C14PlainOrDisabled ==
    (Handled /\ (~sms_enabled \/ (lastSms.decodable /\ ~lastSms.prefix))) =>
        /\ reply = (IF sms_enabled THEN "Thanks" ELSE "DISABLED")
        /\ cmds = <<>>
        /\ smsOut = <<>>
        /\ request_num = 1 /\ lastCall.id = 0

C14Witness ==
    /\ reply = "Thanks" /\ ~lastSms.prefix
    /\ lastSms.args = <<Word("move"), Num(50), Word("n")>>
    /\ flightmode = "GUIDED"

(* C15 (as stated): every sentinel-prefixed body, the bare prefix, a move or
   goto with a non-numeric distance or coordinate and a wp with a non-numeric
   index included, gets a reply from the handler, which never raises. *)
C15NeverRaises == Sentinel => reply \in {"OK", "Thanks"}

(* C16: move or goto with a wrong argument count or outside GUIDED mode, speed
   with other than one argument and wp with other than one argument each send
   exactly one reply SMS (usage or not-in-guided-mode) and issue no
   position-target, speed-change or waypoint command. *)
C16RejectedDoesNotAct ==
    (\/ Named({"move", "goto", "go"}) /\ (Argc \notin {3, 5} \/ flightmode # "GUIDED")
     \/ Named({"speed", "wp"}) /\ Argc # 2) =>
        /\ Len(smsOut) = 1 /\ smsOut[1] \in {"usage", "not guided"}
        /\ \A i \in 1..Len(cmds) : cmds[i].cmd \notin Acts

C16Witness ==
    /\ Named({"move"}) /\ Argc = 3 /\ IsFloat(lastSms.args[2])
    /\ flightmode = "AUTO" /\ smsOut = <<"not guided">> /\ cmds = <<>>

\* the one position target that carries the printed displacement
CarriesDisplacement ==
    /\ Len(cmds) = 1
    /\ cmds[1].cmd = "set_position_target_local_ned"
    /\ <<cmds[1].x, cmds[1].y>> = moving

(* C17 (as stated): for a well-formed move in GUIDED mode no position target is
   issued exactly when the displacement is below 0.5 in magnitude on both
   axes; otherwise exactly one, carrying the displacement. *)
C17AsStated ==
    Moved => IF Abs(moving[1]) < Threshold /\ Abs(moving[2]) < Threshold
             THEN cmds = <<>>
             ELSE CarriesDisplacement

(* C17 (amended): no position target is issued exactly when the displacement
   is at most 0.5 in magnitude on both axes; otherwise exactly one, carrying
   the displacement. *)
C17NoOpUpToThreshold ==
    Moved => IF Abs(moving[1]) <= Threshold /\ Abs(moving[2]) <= Threshold
             THEN cmds = <<>>
             ELSE CarriesDisplacement

C17Witness ==
    /\ Moved /\ lastSms.args = <<Word("move"), Num(5), Word("n")>>
    /\ moving = <<Threshold, 0>> /\ cmds = <<>>

\* the sign a direction word has on each axis, compass and body words together
SignX(w) == IF w \in {"n", "north", "fwd"} THEN 1
            ELSE IF w \in {"s", "south", "aft"} THEN -1 ELSE 0
SignY(w) == IF w \in {"e", "east", "stb"} THEN 1
            ELSE IF w \in {"w", "west", "port"} THEN -1 ELSE 0
\* the second pair of a move, (0, no word) when there is none
Distance2 == IF Argc = 5 THEN lastSms.args[4].tenths ELSE 0
Word2     == IF Argc = 5 THEN lastSms.args[5].t ELSE ""
\* neither a bearing move nor one that mixes compass words with other words
Unmixed ==
    /\ Moved
    /\ ~(Argc = 3 /\ IsInt(lastSms.args[3]))
    /\ \/ lastSms.args[3].t \in CompassTokens /\ Word2 \in CompassTokens \cup {""}
       \/ lastSms.args[3].t \notin CompassTokens /\ Word2 \notin CompassTokens

(* C18: in compass and body-relative moves each axis's displacement is the sum
   of the signed contributions of the pairs that map onto it, unmatched tokens
   giving zero; move d n and move d s give displacements that are negations of
   each other ((d, 0) and (-d, 0)), and move d fwd d port gives magnitude d on
   both axes. *)
C18AxisSums ==
    /\ Unmixed =>
          /\ moving[1] = lastSms.args[2].tenths * SignX(lastSms.args[3].t)
                           + Distance2 * SignX(Word2)
          /\ moving[2] = lastSms.args[2].tenths * SignY(lastSms.args[3].t)
                           + Distance2 * SignY(Word2)
    /\ (Moved /\ Argc = 3 /\ lastSms.args[3].t = "n") =>
          moving = <<lastSms.args[2].tenths, 0>>
    /\ (Moved /\ Argc = 3 /\ lastSms.args[3].t = "s") =>
          moving = <<-lastSms.args[2].tenths, 0>>
    /\ (Moved /\ Argc = 5 /\ lastSms.args[3].t = "fwd" /\ lastSms.args[5].t = "port"
          /\ lastSms.args[4] = lastSms.args[2]) =>
          /\ Abs(moving[1]) = Abs(lastSms.args[2].tenths)
          /\ Abs(moving[2]) = Abs(lastSms.args[2].tenths)

C18Witness ==
    /\ Moved
    /\ lastSms.args = <<Word("move"), Num(15), Word("fwd"), Num(15), Word("port")>>
    /\ moving = <<15, -15>>
    /\ Len(cmds) = 1

(* C19 (as stated): a move is sent in the local-offset (north/east) frame
   whenever either direction token is a compass token, and in the body frame
   only when neither is; a move that mixes a compass token with a
   body-relative token is never sent in the body frame. *)
C19CompassFrame ==
    (Moved /\ cmds # <<>>) =>
        ((cmds[1].arg = FRD) =>
            (lastSms.args[3].t \notin CompassTokens /\ Word2 \notin CompassTokens))

\* a request is handled by incoming_sms
SmsStep == smsSeen' # smsSeen

(* C20: the tick path and the SMS path are serialized on the session token and
   the modem handle: a request handled while a tick is in progress neither
   changes them nor anything else the tick reads or writes, so the tick ends
   with the session token and modem handle it would have in a serial order. *)
C20Serialized ==
    [][SmsStep => UNCHANGED <<session, modem, settings, fields, host, tick>>]_vars

C20Witness ==
    /\ during \in {"resolve", "info"} /\ reply = "Thanks"
    /\ pc = "idle" /\ exit = "return"
    /\ session # None /\ modem # None

----------------------------------------------------------------------------
(* C21 (as stated): a telemetry poll never modifies the host's link
   collections: whatever the flags, mpstate.mav_master and mpstate.mav_outputs
   hold exactly the links the host put there, so a successful poll never sends
   more messages than there are links of the host. *)
C21HostLinksUntouched ==
    /\ mav_master = ConfiguredLinks
    /\ mav_outputs = OutputLinks
    /\ Len(sent) <= Len(ConfiguredLinks) + Len(OutputLinks)

(* C22: with the module started, ticks occurring, time advancing and every
   login answered with result code 0 and a session id, an absent session
   eventually becomes present again: after start and after every
   invalid-session fault a login is issued and the session is there again. *)
C22SessionComesBack == (started /\ session = None) ~> (session # None)

C22Witness ==
    /\ started /\ session # None
    /\ lastCall.action = "login" /\ lastCall.id > 1
    /\ last_login = clock /\ loginAt = clock

----------------------------------------------------------------------------
\* a tick: a step that is neither a command nor the passing of time
TickWhileStopped == ~started /\ UNCHANGED <<settings, started, time>>

(* C23 (as stated): while the module is not started a tick issues no RPC call,
   sends no telemetry message and changes no state; a stopped module has no
   session and no snapshot, and after a start the first gateway call made is a
   login. *)
C23StoppedAndRestart ==
    /\ [][TickWhileStopped =>
             /\ UNCHANGED <<fields, host, tick, lastCall>>
             /\ sent' = <<>>]_vars
    /\ [](~started => session = None /\ last_status = None /\ pc = "idle")
    /\ [][(fresh /\ CallStep) => pc = "login"]_vars

----------------------------------------------------------------------------
\* the devices present that have the GUID the call started from
SameGuid == {i \in 1..Len(devices) : devices[i].guid = detected.before.guid}

(* C24 (as stated): when a device with the GUID of the bound joystick is
   present under another instance id, detect_disconnected ends with the module
   bound to a joystick, the new instance; the bound joystick becomes None only
   when no present device has its GUID. *)
C24Rebinds ==
    (detected.done /\ detected.before # NoJoystick) =>
        /\ (SameGuid # {} /\ \A i \in SameGuid : devices[i].instance # detected.before.instance) =>
              /\ detected.exit = "return"
              /\ \E i \in SameGuid : joystick = devices[i]
        /\ (joystick = NoJoystick) => (SameGuid = {})

====
